---- MODULE Spec2Model ----
(***************************************************************************)
(* HomePOD ESP32 sensor firmware: the three sensor drivers (microphone,    *)
(* DHT temperature/humidity, BH1750 light) and the dual-rate polling loop  *)
(* of main.cpp.                                                            *)
(*                                                                         *)
(* Every driver method is an operator from the object's fields and the     *)
(* device's responses to a record [self, ret, io]: the fields after the    *)
(* call, the value returned, and the device accesses made, in order.       *)
(* The actions of the specifications apply these operators.                *)
(*                                                                         *)
(* float values are records [nan, v]: v is the value in fixed point        *)
(* (tenths of a degree / percent for the DHT, hundredths of a lux for the  *)
(* light sensor); comparisons with NaN are false as in IEEE 754.           *)
(* unsigned long values are 32 bits wide, held as two 16-bit limbs.        *)
(***************************************************************************)
EXTENDS Integers, Sequences, FiniteSets, TLC

VARIABLES
    clock,            \* the value millis() returns
    pc,               \* "boot" before setup() has run, "loop" after
    lastSensorRead,   \* main.cpp global
    lastAudioSample,  \* main.cpp global
    sensorData,       \* main.cpp global snapshot
    micSensor,        \* MicrophoneSensor fields
    dhtSensor,        \* DHTSensor fields
    lightSensor,      \* LightSensor fields
    call,             \* the most recent call: its name, inputs and return value
                      \* (of loop(): the readings taken, and mic, the microphone's
                      \* fields between the audio and the environmental block)
    io,               \* device accesses and calls made by the most recent step, in order
    printed,          \* history: what printSensorData() wrote, latest report first
    micLevels,        \* history: levels of the audio reads since the last resetPeak()
    dhtGood,          \* history: <<t, h>> of the latest DHT read() that validated, <<>> if none
    sinceAudio,       \* history: real ms since the audio timer last fired (or boot)
    sinceEnv,         \* history: real ms since the environmental timer last fired (or boot)
    micSeen,          \* history: the set of levels read since the last resetPeak()
    peakAtReset,      \* history: _peakLevel when resetPeak() was last called on its own
    run               \* history: real ms since setup() returned

vars == <<clock, pc, lastSensorRead, lastAudioSample, sensorData, micSensor,
          dhtSensor, lightSensor, call, io, printed, micLevels, dhtGood,
          sinceAudio, sinceEnv, micSeen, peakAtReset, run>>

-----------------------------------------------------------------------------
(* Bounds of the model.                                                    *)

\* audio reads between two resets in the driver specifications
MaxReads == 4
\* real milliseconds the scheduler specifications run for after setup()
MaxRun == 4200
\* the same, with audio bursts of several levels
MaxReportRun == 2200
\* the same, with environmental devices that fail
MaxEnvRun == 4100
\* reports remembered in printed
MaxReports == 2
\* real milliseconds the scheduler runs for around the wrap of millis()
MaxWrapRun == 2300

-----------------------------------------------------------------------------
(* float                                                                   *)

F(x) == [nan |-> FALSE, v |-> x]
NaN == [nan |-> TRUE, v |-> 0]
isnan(x) == x.nan
FLt(a, b) == ~a.nan /\ ~b.nan /\ a.v < b.v
FGt(a, b) == ~a.nan /\ ~b.nan /\ a.v > b.v
FGe(a, b) == ~a.nan /\ ~b.nan /\ a.v >= b.v

(* Plain helpers used by the properties.                                   *)
Range(s) == {s[i] : i \in DOMAIN s}
SetMax(S) == CHOOSE x \in S : \A y \in S : y <= x
SetMin(S) == CHOOSE x \in S : \A y \in S : x <= y
Pick(S) == CHOOSE v \in S : TRUE
RECURSIVE SeqSum(_)
SeqSum(s) == IF s = <<>> THEN 0 ELSE s[1] + SeqSum(Tail(s))

-----------------------------------------------------------------------------
(* MicrophoneSensor (microphone.h, microphone.cpp)                         *)

AUDIO_SAMPLES == 64
AUDIO_NOISE_FLOOR == 100
ADC_MAX == 4095

MicrophoneSensor == [_peakLevel |-> 0, _lastLevel |-> 0, _runningSum |-> 0, _sampleCount |-> 0]

\* begin(): one test sample, valid iff within the 12-bit range; no field changes.
MicBegin(self, testReading) ==
    [self |-> self,
     ret  |-> (testReading >= 0 /\ testReading <= ADC_MAX),
     io   |-> <<"analogRead">>]

\* The body of the loop of sampleAudio, for one sample analogRead returned.
SampleStep(acc, sample) ==
    [minVal |-> IF sample < acc.minVal THEN sample ELSE acc.minVal,
     maxVal |-> IF sample > acc.maxVal THEN sample ELSE acc.maxVal,
     sum    |-> acc.sum + sample]

\* The iterations i = from .. to of that loop, in ascending order, from the
\* accumulators acc.  The range is run as its lower half and then its upper
\* half, each result bound to a value before the next iteration uses it.
RECURSIVE SampleLoop(_, _, _, _)
SampleLoop(samples, from, to, acc) ==
    IF from = to THEN SampleStep(acc, samples[from])
    ELSE Pick({Pick({SampleLoop(samples, mid + 1, to, a) : a \in {SampleLoop(samples, from, mid, acc)}}) : mid \in {(from + to) \div 2}})

sampleAudio(samples) ==
    Pick({[minVal |-> acc.minVal, maxVal |-> acc.maxVal, avgVal |-> acc.sum \div AUDIO_SAMPLES] : acc \in {SampleLoop(samples, 1, AUDIO_SAMPLES, [minVal |-> ADC_MAX, maxVal |-> 0, sum |-> 0])}})

\* Mutant of NoiseFloor: the floor is a gate only, it is not subtracted.
NoiseFloor_NoSubtract(peakToPeak) ==
    IF peakToPeak < AUDIO_NOISE_FLOOR THEN 0 ELSE peakToPeak

\* Mutant of NoiseFloor: the floor is subtracted from every amplitude.
NoiseFloor_AlwaysSubtract(peakToPeak) == peakToPeak - AUDIO_NOISE_FLOOR

\* read(): the peak-to-peak amplitude with the noise floor correction applied.
NoiseFloor(peakToPeak) ==
    IF peakToPeak < AUDIO_NOISE_FLOOR THEN 0 ELSE peakToPeak - AUDIO_NOISE_FLOOR

PeakToPeak(s) == NoiseFloor(s.maxVal - s.minVal)

\* Mutant of MicTrack: the peak is overwritten by every read.
MicTrack_LastAsPeak(self, peakToPeak) ==
    [self |-> [_peakLevel |-> peakToPeak, _lastLevel |-> peakToPeak,
               _runningSum |-> self._runningSum + peakToPeak,
               _sampleCount |-> self._sampleCount + 1],
     ret  |-> [level |-> peakToPeak, peak |-> peakToPeak,
               average |-> (self._runningSum + peakToPeak) \div (self._sampleCount + 1),
               isValid |-> TRUE],
     io   |-> <<"mic.read">>]

\* read(): peak tracking, running average, last level and the reading returned.
MicTrack(self, peakToPeak) ==
    LET peak       == IF peakToPeak > self._peakLevel THEN peakToPeak ELSE self._peakLevel
        runningSum == self._runningSum + peakToPeak
        count      == self._sampleCount + 1
    IN [self |-> [_peakLevel |-> peak, _lastLevel |-> peakToPeak,
                  _runningSum |-> runningSum, _sampleCount |-> count],
        ret  |-> [level |-> peakToPeak, peak |-> peak,
                  average |-> IF count > 0 THEN runningSum \div count ELSE 0,
                  isValid |-> TRUE],
        io   |-> <<"mic.read">>]

\* read(): the burst is sampled once and its level computed once.
MicRead(self, samples) ==
    Pick({MicTrack(self, peakToPeak) : peakToPeak \in {PeakToPeak(s) : s \in {sampleAudio(samples)}}})

\* Mutant of MicResetPeak: the running sum survives the reset.
MicResetPeak_KeepsSum(self) ==
    [self |-> [self EXCEPT !._peakLevel = 0, !._sampleCount = 0],
     ret  |-> <<>>,
     io   |-> <<"mic.resetPeak">>]

\* Mutant of MicResetPeak: the peak survives the reset.
MicResetPeak_KeepsPeak(self) ==
    [self |-> [self EXCEPT !._runningSum = 0, !._sampleCount = 0],
     ret  |-> <<>>,
     io   |-> <<"mic.resetPeak">>]

\* Mutant of MicResetPeak: the sample count survives the reset.
MicResetPeak_KeepsCount(self) ==
    [self |-> [self EXCEPT !._peakLevel = 0, !._runningSum = 0],
     ret  |-> <<>>,
     io   |-> <<"mic.resetPeak">>]

MicResetPeak(self) ==
    [self |-> [self EXCEPT !._peakLevel = 0, !._runningSum = 0, !._sampleCount = 0],
     ret  |-> <<>>,
     io   |-> <<"mic.resetPeak">>]

MicGetPeak(self) == [self |-> self, ret |-> self._peakLevel, io |-> <<>>]

\* Mutant of MicIsAboveThreshold: the peak is compared, not the last level.
MicIsAboveThreshold_UsesPeak(self, threshold) ==
    [self |-> self, ret |-> self._peakLevel > threshold, io |-> <<>>]

MicIsAboveThreshold(self, threshold) ==
    [self |-> self, ret |-> self._lastLevel > threshold, io |-> <<>>]

-----------------------------------------------------------------------------
(* DHTSensor (dht_sensor.h, dht_sensor.cpp)                                *)

TEMP_MIN == F(-400)
TEMP_MAX == F(800)
HUMIDITY_MIN == F(0)
HUMIDITY_MAX == F(1000)

\* DHT::computeHeatIndex(t, h, false) of the device library: the value is
\* known only as a function of its two arguments.
computeHeatIndex(t, h) == [heatIndexOf |-> <<t, h>>]

DHTSensor == [_dht |-> FALSE, _lastTemp |-> F(0), _lastHumidity |-> F(0), _initialized |-> FALSE]

\* Mutant of DhtBegin: the first pair decides, there is no retry.
DhtBegin_NoRetry(self, r1, r2) ==
    LET ok == ~isnan(r1[1]) /\ ~isnan(r1[2])
    IN [self |-> [_dht |-> TRUE,
                  _lastTemp |-> IF ok THEN r1[1] ELSE self._lastTemp,
                  _lastHumidity |-> IF ok THEN r1[2] ELSE self._lastHumidity,
                  _initialized |-> ok],
        ret  |-> ok,
        io   |-> <<"dht.begin", "delay2000", "readTemperature", "readHumidity">>]

\* begin(): r1 and r2 are the <<temperature, humidity>> the device gives to the
\* first and (if made) the second attempt.  new DHT(...) yields an object.
DhtBegin(self, r1, r2) ==
    LET allocated == TRUE
        retry     == isnan(r1[1]) \/ isnan(r1[2])
        temp      == IF retry THEN r2[1] ELSE r1[1]
        humidity  == IF retry THEN r2[2] ELSE r1[2]
        ok        == ~isnan(temp) /\ ~isnan(humidity)
        attempt   == <<"readTemperature", "readHumidity">>
    IN IF ~allocated
       THEN [self |-> self, ret |-> FALSE, io |-> <<>>]
       ELSE [self |-> [_dht |-> TRUE,
                       _lastTemp |-> IF ok THEN temp ELSE self._lastTemp,
                       _lastHumidity |-> IF ok THEN humidity ELSE self._lastHumidity,
                       _initialized |-> ok],
             ret  |-> ok,
             io   |-> <<"dht.begin", "delay2000">> \o attempt
                      \o (IF retry THEN <<"delay2000">> \o attempt ELSE <<>>)]

\* Mutant of validateReading: the upper limits are excluded.
validateReading_OpenAbove(temp, humidity) ==
    IF isnan(temp) \/ isnan(humidity) THEN FALSE
    ELSE IF FLt(temp, TEMP_MIN) \/ FGe(temp, TEMP_MAX) THEN FALSE
    ELSE IF FLt(humidity, HUMIDITY_MIN) \/ FGe(humidity, HUMIDITY_MAX) THEN FALSE
    ELSE TRUE

validateReading(temp, humidity) ==
    IF isnan(temp) \/ isnan(humidity) THEN FALSE
    ELSE IF FLt(temp, TEMP_MIN) \/ FGt(temp, TEMP_MAX) THEN FALSE
    ELSE IF FLt(humidity, HUMIDITY_MIN) \/ FGt(humidity, HUMIDITY_MAX) THEN FALSE
    ELSE TRUE

\* Mutant of DhtRead: a failed read returns zeros instead of the last-good pair.
DhtRead_ZeroOnFailure(self, temp, humidity) ==
    IF ~self._initialized \/ ~self._dht
    THEN [self |-> self,
          ret  |-> [temperature |-> F(0), humidity |-> F(0), heatIndex |-> F(0),
                    isValid |-> FALSE],
          io   |-> <<>>]
    ELSE IF validateReading(temp, humidity)
    THEN [self |-> [self EXCEPT !._lastTemp = temp, !._lastHumidity = humidity],
          ret  |-> [temperature |-> temp, humidity |-> humidity,
                    heatIndex |-> computeHeatIndex(temp, humidity), isValid |-> TRUE],
          io   |-> <<"readTemperature", "readHumidity", "computeHeatIndex">>]
    ELSE [self |-> self,
          ret  |-> [temperature |-> F(0), humidity |-> F(0), heatIndex |-> F(0),
                    isValid |-> FALSE],
          io   |-> <<"readTemperature", "readHumidity", "computeHeatIndex">>]

\* Mutant of DhtRead: an uninitialized sensor reads the device and recovers.
DhtRead_Recovers(self, temp, humidity) ==
    IF ~self._dht
    THEN [self |-> self,
          ret  |-> [temperature |-> F(0), humidity |-> F(0), heatIndex |-> F(0),
                    isValid |-> FALSE],
          io   |-> <<>>]
    ELSE IF validateReading(temp, humidity)
    THEN [self |-> [self EXCEPT !._lastTemp = temp, !._lastHumidity = humidity,
                                !._initialized = TRUE],
          ret  |-> [temperature |-> temp, humidity |-> humidity,
                    heatIndex |-> computeHeatIndex(temp, humidity), isValid |-> TRUE],
          io   |-> <<"readTemperature", "readHumidity", "computeHeatIndex">>]
    ELSE [self |-> self,
          ret  |-> [temperature |-> self._lastTemp, humidity |-> self._lastHumidity,
                    heatIndex |-> computeHeatIndex(self._lastTemp, self._lastHumidity),
                    isValid |-> FALSE],
          io   |-> <<"readTemperature", "readHumidity", "computeHeatIndex">>]

DhtRead(self, temp, humidity) ==
    IF ~self._initialized \/ ~self._dht
    THEN [self |-> self,
          ret  |-> [temperature |-> F(0), humidity |-> F(0), heatIndex |-> F(0),
                    isValid |-> FALSE],
          io   |-> <<>>]
    ELSE IF validateReading(temp, humidity)
    THEN [self |-> [self EXCEPT !._lastTemp = temp, !._lastHumidity = humidity],
          ret  |-> [temperature |-> temp, humidity |-> humidity,
                    heatIndex |-> computeHeatIndex(temp, humidity), isValid |-> TRUE],
          io   |-> <<"readTemperature", "readHumidity", "computeHeatIndex">>]
    ELSE [self |-> self,
          ret  |-> [temperature |-> self._lastTemp, humidity |-> self._lastHumidity,
                    heatIndex |-> computeHeatIndex(self._lastTemp, self._lastHumidity),
                    isValid |-> FALSE],
          io   |-> <<"readTemperature", "readHumidity", "computeHeatIndex">>]

\* (tempC * 9.0f / 5.0f) + 32.0f, in tenths of a degree.
DhtGetTemperatureF(self, temp) ==
    IF ~self._initialized \/ ~self._dht
    THEN [self |-> self, ret |-> F(0), io |-> <<>>]
    ELSE LET tempC == IF isnan(temp) THEN self._lastTemp ELSE temp
         IN [self |-> self,
             ret  |-> F((tempC.v * 9) \div 5 + 320),
             io   |-> <<"readTemperature">>]

DhtIsConnected(self, temp) ==
    IF ~self._initialized \/ ~self._dht
    THEN [self |-> self, ret |-> FALSE, io |-> <<>>]
    ELSE [self |-> self, ret |-> ~isnan(temp), io |-> <<"readTemperature">>]

-----------------------------------------------------------------------------
(* LightSensor (light_sensor.h, light_sensor.cpp)                          *)

LIGHT_DARK == F(1000)
LIGHT_DIM == F(5000)
LIGHT_NORMAL == F(30000)
LIGHT_BRIGHT == F(100000)

CONDITION_DARK == 0
CONDITION_DIM == 1
CONDITION_NORMAL == 2
CONDITION_BRIGHT == 3
CONDITION_VERY_BRIGHT == 4

LightSensor == [_sensor |-> FALSE, _initialized |-> FALSE, _lastLux |-> F(0)]

\* Mutant of getCondition: a lux equal to a threshold stays in the class below.
getCondition_Inclusive(lux) ==
    IF ~FGt(lux, LIGHT_DARK) THEN CONDITION_DARK
    ELSE IF ~FGt(lux, LIGHT_DIM) THEN CONDITION_DIM
    ELSE IF ~FGt(lux, LIGHT_NORMAL) THEN CONDITION_NORMAL
    ELSE IF ~FGt(lux, LIGHT_BRIGHT) THEN CONDITION_BRIGHT
    ELSE CONDITION_VERY_BRIGHT

getCondition(lux) ==
    IF FLt(lux, LIGHT_DARK) THEN CONDITION_DARK
    ELSE IF FLt(lux, LIGHT_DIM) THEN CONDITION_DIM
    ELSE IF FLt(lux, LIGHT_NORMAL) THEN CONDITION_NORMAL
    ELSE IF FLt(lux, LIGHT_BRIGHT) THEN CONDITION_BRIGHT
    ELSE CONDITION_VERY_BRIGHT

getConditionString(condition) ==
    CASE condition = CONDITION_DARK -> "Dark"
      [] condition = CONDITION_DIM -> "Dim"
      [] condition = CONDITION_NORMAL -> "Normal"
      [] condition = CONDITION_BRIGHT -> "Bright"
      [] condition = CONDITION_VERY_BRIGHT -> "Very Bright"
      [] OTHER -> "Unknown"

\* begin(): started is what BH1750::begin(mode) returns, lux what the one
\* readLightLevel() made after the measurement delay returns.
LightBegin(self, started, lux) ==
    LET allocated == TRUE
    IN IF ~allocated
       THEN [self |-> self, ret |-> FALSE, io |-> <<>>]
       ELSE IF started
       THEN [self |-> [_sensor |-> TRUE, _initialized |-> TRUE,
                       _lastLux |-> IF FGe(lux, F(0)) THEN lux ELSE self._lastLux],
             ret  |-> TRUE,
             io   |-> <<"bh1750.begin", "delay180", "readLightLevel">>]
       ELSE [self |-> [self EXCEPT !._sensor = TRUE, !._initialized = FALSE],
             ret  |-> FALSE,
             io   |-> <<"bh1750.begin">>]

\* Mutant of LightRead: a failed read returns 0 lux instead of the stored lux.
LightRead_ZeroOnFailure(self, lux) ==
    IF ~self._initialized \/ ~self._sensor
    THEN [self |-> self,
          ret  |-> [lux |-> F(0), condition |-> CONDITION_DARK, isValid |-> FALSE],
          io   |-> <<>>]
    ELSE IF FGe(lux, F(0))
    THEN [self |-> [self EXCEPT !._lastLux = lux],
          ret  |-> [lux |-> lux, condition |-> getCondition(lux), isValid |-> TRUE],
          io   |-> <<"readLightLevel">>]
    ELSE [self |-> self,
          ret  |-> [lux |-> F(0), condition |-> CONDITION_DARK, isValid |-> FALSE],
          io   |-> <<"readLightLevel">>]

LightRead(self, lux) ==
    IF ~self._initialized \/ ~self._sensor
    THEN [self |-> self,
          ret  |-> [lux |-> F(0), condition |-> CONDITION_DARK, isValid |-> FALSE],
          io   |-> <<>>]
    ELSE IF FGe(lux, F(0))
    THEN [self |-> [self EXCEPT !._lastLux = lux],
          ret  |-> [lux |-> lux, condition |-> getCondition(lux), isValid |-> TRUE],
          io   |-> <<"readLightLevel">>]
    ELSE [self |-> self,
          ret  |-> [lux |-> self._lastLux, condition |-> getCondition(self._lastLux),
                    isValid |-> FALSE],
          io   |-> <<"readLightLevel">>]

LightGetLux(self, lux) ==
    IF ~self._initialized \/ ~self._sensor
    THEN [self |-> self, ret |-> F(0), io |-> <<>>]
    ELSE IF FGe(lux, F(0))
    THEN [self |-> [self EXCEPT !._lastLux = lux], ret |-> lux, io |-> <<"readLightLevel">>]
    ELSE [self |-> self, ret |-> self._lastLux, io |-> <<"readLightLevel">>]

LightIsConnected(self, lux) ==
    IF ~self._initialized \/ ~self._sensor
    THEN [self |-> self, ret |-> FALSE, io |-> <<>>]
    ELSE [self |-> self, ret |-> FGe(lux, F(0)), io |-> <<"readLightLevel">>]

LightSetMode(self) ==
    IF self._initialized /\ self._sensor
    THEN [self |-> self, ret |-> <<>>, io |-> <<"configure">>]
    ELSE [self |-> self, ret |-> <<>>, io |-> <<>>]

-----------------------------------------------------------------------------
(* unsigned long: 32 bits, as two 16-bit limbs [hi, lo]                    *)

Limb == 2^16
ULong(n) == [hi |-> (n \div Limb) % Limb, lo |-> n % Limb]
ULongAdd(a, n) ==
    LET lo == a.lo + n
    IN [hi |-> (a.hi + lo \div Limb) % Limb, lo |-> lo % Limb]
\* a - b, modulo 2^32
ULongSub(a, b) ==
    LET lo     == a.lo - b.lo
        borrow == IF lo < 0 THEN 1 ELSE 0
    IN [hi |-> (a.hi - b.hi - borrow) % Limb, lo |-> lo + borrow * Limb]
ULongGE(a, b) == a.hi > b.hi \/ (a.hi = b.hi /\ a.lo >= b.lo)

-----------------------------------------------------------------------------
(* main.cpp                                                                *)

SENSOR_READ_INTERVAL == 2000
AUDIO_SAMPLE_INTERVAL == 100

\* The zero-initialised global, and what memset(&sensorData, 0, ...) writes.
SensorData == [temperature |-> F(0), humidity |-> F(0), lightLevel |-> F(0), audioLevel |-> 0, audioPeak |-> 0, isValid |-> FALSE]

\* The milliseconds a sequence of device accesses spends in delay().
RECURSIVE Delays(_)
Delays(s) ==
    IF s = <<>> THEN 0
    ELSE (CASE s[1] = "delay1000" -> 1000
            [] s[1] = "delay2000" -> 2000
            [] s[1] = "delay180"  -> 180
            [] OTHER -> 0) + Delays(Tail(s))

\* Mutant of Due: the timer fires only when more than the interval has passed.
Due_Strict(currentMillis, last, interval) ==
    /\ ULongGE(ULongSub(currentMillis, last), ULong(interval))
    /\ ULongSub(currentMillis, last) # ULong(interval)

\* Mutant of Due: the deadline last + interval is compared with now.
Due_Deadline(currentMillis, last, interval) ==
    ULongGE(currentMillis, ULongAdd(last, interval))

\* currentMillis - last >= interval, in unsigned long arithmetic.
Due(currentMillis, last, interval) ==
    ULongGE(ULongSub(currentMillis, last), ULong(interval))

\* The globals of main.cpp as one record g:
\*   [lastSensorRead, lastAudioSample, sensorData, micSensor, dhtSensor, lightSensor]
\* and the result of a block of loop(): [g, fired, io, ...the readings taken].

\* loop(), lines 102-106: the body of the audio timer's if.
AudioFire(g, currentMillis, audioReading) ==
    [g |-> [g EXCEPT !.lastAudioSample = currentMillis,
                     !.micSensor = audioReading.self,
                     !.sensorData.audioLevel = audioReading.ret.level,
                     !.sensorData.audioPeak = audioReading.ret.peak],
     fired |-> TRUE,
     io |-> audioReading.io,
     audioReading |-> <<audioReading.ret>>]

\* loop(), lines 100-107: the audio timer.
AudioBlock(g, currentMillis, samples) ==
    IF Due(currentMillis, g.lastAudioSample, AUDIO_SAMPLE_INTERVAL)
    THEN Pick({AudioFire(g, currentMillis, audioReading) : audioReading \in {MicRead(g.micSensor, samples)}})
    ELSE [g |-> g, fired |-> FALSE, io |-> <<>>, audioReading |-> <<>>]

\* Mutant of StoreDht: the reading is written whether valid or not.
StoreDht_Always(data, dhtReading) ==
    [data EXCEPT !.temperature = dhtReading.temperature,
                 !.humidity = dhtReading.humidity]

\* loop(), lines 115-118 and 122-124: valid readings are written to the snapshot.
StoreDht(data, dhtReading) ==
    IF dhtReading.isValid
    THEN [data EXCEPT !.temperature = dhtReading.temperature,
                      !.humidity = dhtReading.humidity]
    ELSE data

StoreLight(data, lightReading) ==
    IF lightReading.isValid
    THEN [data EXCEPT !.lightLevel = lightReading.lux]
    ELSE data

\* What printSensorData() writes.
printSensorData(data) ==
    [temperature |-> data.temperature, humidity |-> data.humidity,
     lightLevel |-> data.lightLevel, audioLevel |-> data.audioLevel,
     audioPeak |-> data.audioPeak]

\* loop(), lines 111-130: the body of the environmental timer's if.
EnvFire(g, currentMillis, dhtReading, lightReading, reset) ==
    [g |-> [g EXCEPT !.lastSensorRead = currentMillis,
                     !.dhtSensor = dhtReading.self,
                     !.lightSensor = lightReading.self,
                     !.micSensor = reset.self,
                     !.sensorData = StoreLight(StoreDht(g.sensorData, dhtReading.ret),
                                               lightReading.ret)],
     fired |-> TRUE,
     io |-> <<"dht.read">> \o dhtReading.io \o <<"light.read">> \o lightReading.io
            \o reset.io \o <<"printSensorData">>,
     dhtReading |-> <<dhtReading.ret>>,
     lightReading |-> <<lightReading.ret>>,
     printed |-> <<printSensorData(StoreLight(StoreDht(g.sensorData, dhtReading.ret),
                                              lightReading.ret))>>]

\* loop(), lines 109-131: the environmental timer.
EnvBlock(g, currentMillis, temp, humidity, lux) ==
    IF Due(currentMillis, g.lastSensorRead, SENSOR_READ_INTERVAL)
    THEN EnvFire(g, currentMillis, DhtRead(g.dhtSensor, temp, humidity),
                 LightRead(g.lightSensor, lux), MicResetPeak(g.micSensor))
    ELSE [g |-> g, fired |-> FALSE, io |-> <<>>, dhtReading |-> <<>>,
          lightReading |-> <<>>, printed |-> <<>>]

\* Mutant of LoopEnv: the environmental block is the else of the audio block.
LoopEnv_ElseIf(a, currentMillis, temp, humidity, lux) ==
    [a |-> a,
     e |-> IF a.fired
           THEN [g |-> a.g, fired |-> FALSE, io |-> <<>>, dhtReading |-> <<>>,
                 lightReading |-> <<>>, printed |-> <<>>]
           ELSE EnvBlock(a.g, currentMillis, temp, humidity, lux)]

\* loop(): the audio block a, then the environmental block.
LoopEnv(a, currentMillis, temp, humidity, lux) ==
    [a |-> a, e |-> EnvBlock(a.g, currentMillis, temp, humidity, lux)]

LoopBody(g, currentMillis, samples, temp, humidity, lux) ==
    Pick({LoopEnv(a, currentMillis, temp, humidity, lux) : a \in {AudioBlock(g, currentMillis, samples)}})

-----------------------------------------------------------------------------
(* The state after construction of the globals, before setup().            *)

Init ==
    /\ clock = ULong(0)
    /\ pc = "boot"
    /\ lastSensorRead = ULong(0)
    /\ lastAudioSample = ULong(0)
    /\ sensorData = SensorData
    /\ micSensor = MicrophoneSensor
    /\ dhtSensor = DHTSensor
    /\ lightSensor = LightSensor
    /\ call = [op |-> "init"]
    /\ io = <<>>
    /\ printed = <<>>
    /\ micLevels = <<>>
    /\ dhtGood = <<>>
    /\ sinceAudio = 0
    /\ sinceEnv = 0
    /\ micSeen = {}
    /\ peakAtReset = 0
    /\ run = 0

mainVars == <<clock, pc, lastSensorRead, lastAudioSample, sensorData, printed, sinceAudio, sinceEnv, run>>
\* The history kept only by the driver specifications.
driverHist == <<micLevels, peakAtReset>>

-----------------------------------------------------------------------------
(* The program: setup(), then loop() again and again while millis() advances *)

\* setup(): delay(1000), then begin() of each sensor, then the memset.
Setup(testReading, r1, r2, started, lux) ==
    /\ pc = "boot"
    /\ LET m  == MicBegin(micSensor, testReading)
           d  == DhtBegin(dhtSensor, r1, r2)
           l  == LightBegin(lightSensor, started, lux)
           steps == <<"delay1000">> \o m.io \o d.io \o l.io
       IN /\ micSensor' = m.self
          /\ dhtSensor' = d.self
          /\ lightSensor' = l.self
          /\ io' = steps
          /\ clock' = ULongAdd(clock, Delays(steps))
          /\ sinceAudio' = sinceAudio + Delays(steps)
          /\ sinceEnv' = sinceEnv + Delays(steps)
          /\ call' = [op |-> "setup", mic |-> m.ret, dht |-> d.ret, light |-> l.ret]
    /\ sensorData' = SensorData
    /\ pc' = "loop"
    /\ UNCHANGED <<lastSensorRead, lastAudioSample, printed, driverHist, dhtGood, micSeen, run>>

\* One iteration of loop(), entered when millis() has advanced by d since the
\* previous iteration read it (since setup() for the first): the audio block,
\* then the environmental block.
Loop(d, samples, temp, humidity, lux) ==
    /\ pc = "loop"
    /\ run + d <= MaxRun
    /\ clock' = ULongAdd(clock, d)
    /\ run' = run + d
    /\ \E r \in {LoopBody([lastSensorRead |-> lastSensorRead,
                           lastAudioSample |-> lastAudioSample,
                           sensorData |-> sensorData, micSensor |-> micSensor,
                           dhtSensor |-> dhtSensor, lightSensor |-> lightSensor],
                          ULongAdd(clock, d), samples, temp, humidity, lux)} :
          /\ lastSensorRead' = r.e.g.lastSensorRead
          /\ lastAudioSample' = r.e.g.lastAudioSample
          /\ sensorData' = r.e.g.sensorData
          /\ micSensor' = r.e.g.micSensor
          /\ dhtSensor' = r.e.g.dhtSensor
          /\ lightSensor' = r.e.g.lightSensor
          /\ io' = r.a.io \o r.e.io
          /\ call' = [op |-> "loop", d |-> d, now |-> ULongAdd(clock, d),
                      audioReading |-> r.a.audioReading, mic |-> r.a.g.micSensor,
                      dhtReading |-> r.e.dhtReading, lightReading |-> r.e.lightReading]
          /\ printed' = IF r.e.fired
                        THEN SubSeq(r.e.printed \o printed, 1,
                                    IF Len(printed) < MaxReports THEN Len(printed) + 1
                                    ELSE MaxReports)
                        ELSE printed
          /\ sinceAudio' = IF r.a.fired THEN 0 ELSE sinceAudio + d
          /\ sinceEnv' = IF r.e.fired THEN 0 ELSE sinceEnv + d
          /\ micSeen' = IF r.e.fired THEN {}
                        ELSE IF r.a.fired THEN micSeen \cup {r.a.audioReading[1].level}
                        ELSE micSeen
          /\ dhtGood' = IF r.e.fired /\ r.e.dhtReading[1].isValid
                        THEN <<<<temp, humidity>>>> ELSE dhtGood
    /\ UNCHANGED <<pc, driverHist>>

-----------------------------------------------------------------------------
(* Device responses the specifications draw from.                          *)

\* 64 samples: lo at index pMin, hi at index pMax, the midpoint elsewhere.
Burst(lo, hi, pMin, pMax) ==
    [i \in 1..AUDIO_SAMPLES |->
        IF i = pMax THEN hi ELSE IF i = pMin THEN lo ELSE (lo + hi) \div 2]

\* millis() between two iterations: no change, the 50 ms tick, a late tick, a stall.
Steps == {0, 50, 150, 2050}

SchedBursts == {Burst(0, 4095, 1, 64)}
SchedDht == {<<F(225), F(500)>>}
SchedLux == {F(12000)}

SchedSetup ==
    \E r1 \in SchedDht, r2 \in SchedDht, lux \in SchedLux : Setup(2048, r1, r2, TRUE, lux)

SchedLoop ==
    \E d \in Steps, samples \in SchedBursts, r \in SchedDht, lux \in SchedLux :
        Loop(d, samples, r[1], r[2], lux)

Next == SchedSetup \/ SchedLoop

\* The scheduler: setup(), then loop() over a clock that never goes back.
Spec == Init /\ [][Next]_vars

\* An iteration of loop() that finds millis() advanced.
SchedTick ==
    \E d \in Steps \ {0}, samples \in SchedBursts, r \in SchedDht, lux \in SchedLux :
        Loop(d, samples, r[1], r[2], lux)

\* The scheduler under the Arduino runtime: setup() returns, loop() is called
\* again and again, and millis() keeps advancing (for MaxRun milliseconds).
SpecLive == Spec /\ WF_vars(SchedSetup) /\ WF_vars(SchedTick)

-----------------------------------------------------------------------------
(* The program with audio bursts of several levels (SpecReport) and with   *)
(* environmental devices that fail (SpecEnv).                              *)

ReportSteps == {50, 650}
ReportBursts == {Burst(2000, 2080, 1, 64), Burst(1000, 1150, 64, 1), Burst(0, 4095, 2, 63)}

ReportLoop ==
    \E d \in ReportSteps, samples \in ReportBursts, r \in SchedDht, lux \in SchedLux :
        /\ run + d <= MaxReportRun
        /\ Loop(d, samples, r[1], r[2], lux)

ReportNext == SchedSetup \/ ReportLoop

SpecReport == Init /\ [][ReportNext]_vars

EnvSteps == {0, 2050}
EnvDht == {<<F(225), F(500)>>, <<F(301), F(412)>>, <<NaN, F(500)>>, <<F(225), NaN>>, <<F(1500), F(500)>>, <<F(225), F(1001)>>}
EnvLux == {F(12000), F(999), F(-100), F(-200)}

EnvSetup ==
    \E r1 \in EnvDht, r2 \in EnvDht, started \in BOOLEAN, lux \in EnvLux :
        Setup(2048, r1, r2, started, lux)

EnvLoop ==
    \E d \in EnvSteps, samples \in SchedBursts, r \in EnvDht, lux \in EnvLux :
        /\ run + d <= MaxEnvRun
        /\ Loop(d, samples, r[1], r[2], lux)

EnvNext == EnvSetup \/ EnvLoop

SpecEnv == Init /\ [][EnvNext]_vars


-----------------------------------------------------------------------------
(* The drivers on their own: any sequence of calls of the public methods.  *)

MicBeginOp(testReading) ==
    /\ \E r \in {MicBegin(micSensor, testReading)} :
          /\ micSensor' = r.self
          /\ io' = r.io
          /\ call' = [op |-> "mic.begin", testReading |-> testReading, ret |-> r.ret]
    /\ UNCHANGED <<mainVars, dhtSensor, lightSensor, driverHist, micSeen, dhtGood>>

MicReadOp(samples) ==
    /\ Len(micLevels) < MaxReads
    /\ \E r \in {MicRead(micSensor, samples)} :
          /\ micSensor' = r.self
          /\ io' = r.io
          /\ call' = [op |-> "mic.read", samples |-> samples, ret |-> r.ret]
          /\ micLevels' = Append(micLevels, r.ret.level)
          /\ micSeen' = micSeen \cup {r.ret.level}
    /\ UNCHANGED <<mainVars, dhtSensor, lightSensor, dhtGood, peakAtReset>>

MicResetPeakOp ==
    /\ \E r \in {MicResetPeak(micSensor)} :
          /\ micSensor' = r.self
          /\ io' = r.io
          /\ call' = [op |-> "mic.resetPeak"]
    /\ micLevels' = <<>>
    /\ micSeen' = {}
    /\ peakAtReset' = micSensor._peakLevel
    /\ UNCHANGED <<mainVars, dhtSensor, lightSensor, dhtGood>>

MicGetPeakOp ==
    /\ \E r \in {MicGetPeak(micSensor)} :
          /\ micSensor' = r.self
          /\ io' = r.io
          /\ call' = [op |-> "mic.getPeak", ret |-> r.ret]
    /\ UNCHANGED <<mainVars, dhtSensor, lightSensor, driverHist, micSeen, dhtGood>>

MicIsAboveThresholdOp(threshold) ==
    /\ \E r \in {MicIsAboveThreshold(micSensor, threshold)} :
          /\ micSensor' = r.self
          /\ io' = r.io
          /\ call' = [op |-> "mic.isAboveThreshold", threshold |-> threshold, ret |-> r.ret]
    /\ UNCHANGED <<mainVars, dhtSensor, lightSensor, driverHist, micSeen, dhtGood>>

\* <<lo, hi>> of the bursts: spreads 0, 80, 99, 100, 101, 150 and the full range.
MicSpreads == {<<1000, 1000>>, <<2000, 2080>>, <<2000, 2099>>, <<2000, 2100>>, <<2000, 2101>>, <<1000, 1150>>, <<0, 4095>>}
MicPositions == {<<1, 64>>, <<64, 1>>, <<31, 32>>}
MicBursts == {Burst(sp[1], sp[2], pos[1], pos[2]) : sp \in MicSpreads, pos \in MicPositions}
MicThresholds == {0, 49, 50, 3995}

MicNext ==
    \/ \E testReading \in {0, 2048, ADC_MAX} : MicBeginOp(testReading)
    \/ \E samples \in MicBursts : MicReadOp(samples)
    \/ MicResetPeakOp
    \/ MicGetPeakOp
    \/ \E threshold \in MicThresholds : MicIsAboveThresholdOp(threshold)

SpecMic == Init /\ [][MicNext]_vars

-----------------------------------------------------------------------------
(* The DHT driver on its own: begin() once on the constructed object, and  *)
(* any sequence of calls of the other public methods before and after it.  *)

DhtBeginOp(r1, r2) ==
    /\ ~dhtSensor._dht
    /\ \E r \in {DhtBegin(dhtSensor, r1, r2)} :
          /\ dhtSensor' = r.self
          /\ io' = r.io
          /\ call' = [op |-> "dht.begin", r1 |-> r1, r2 |-> r2, ret |-> r.ret]
    /\ UNCHANGED <<mainVars, micSensor, lightSensor, driverHist, micSeen, dhtGood>>

DhtReadOp(temp, humidity) ==
    /\ \E r \in {DhtRead(dhtSensor, temp, humidity)} :
          /\ dhtSensor' = r.self
          /\ io' = r.io
          /\ call' = [op |-> "dht.read", temp |-> temp, humidity |-> humidity, ret |-> r.ret]
          /\ dhtGood' = IF r.ret.isValid THEN <<<<temp, humidity>>>> ELSE dhtGood
    /\ UNCHANGED <<mainVars, micSensor, lightSensor, driverHist, micSeen>>

DhtGetTemperatureFOp(temp) ==
    /\ \E r \in {DhtGetTemperatureF(dhtSensor, temp)} :
          /\ dhtSensor' = r.self
          /\ io' = r.io
          /\ call' = [op |-> "dht.getTemperatureF", temp |-> temp, ret |-> r.ret]
    /\ UNCHANGED <<mainVars, micSensor, lightSensor, driverHist, micSeen, dhtGood>>

DhtIsConnectedOp(temp) ==
    /\ \E r \in {DhtIsConnected(dhtSensor, temp)} :
          /\ dhtSensor' = r.self
          /\ io' = r.io
          /\ call' = [op |-> "dht.isConnected", temp |-> temp, ret |-> r.ret]
    /\ UNCHANGED <<mainVars, micSensor, lightSensor, driverHist, micSeen, dhtGood>>

DhtValidateReadingOp(temp, humidity) ==
    /\ dhtSensor' = dhtSensor
    /\ io' = <<>>
    /\ call' = [op |-> "dht.validateReading", temp |-> temp, humidity |-> humidity,
                ret |-> validateReading(temp, humidity)]
    /\ UNCHANGED <<mainVars, micSensor, lightSensor, driverHist, micSeen, dhtGood>>

\* Arguments of validateReading: the limits, one step and far beyond, NaN.
ValidateTemps == {NaN, F(-10000), F(-401), F(-400), F(-399), F(0), F(225), F(799), F(800), F(801), F(1500)}
ValidateHumidities == {NaN, F(-1000), F(-1), F(0), F(1), F(500), F(999), F(1000), F(1001), F(2000)}

\* <<temperature, humidity>> of the device: good pairs, the range limits and
\* one step beyond them, NaN in either place or both.
DhtPairs == {<<F(225), F(500)>>, <<F(301), F(412)>>, <<F(-400), F(0)>>, <<F(800), F(1000)>>, <<F(-401), F(500)>>, <<F(801), F(500)>>, <<F(1500), F(500)>>, <<F(225), F(-1)>>, <<F(225), F(1001)>>, <<NaN, F(500)>>, <<F(225), NaN>>, <<NaN, NaN>>}

DhtNext ==
    \/ \E r1 \in DhtPairs, r2 \in DhtPairs : DhtBeginOp(r1, r2)
    \/ \E r \in DhtPairs : DhtReadOp(r[1], r[2])
    \/ \E r \in DhtPairs : DhtGetTemperatureFOp(r[1])
    \/ \E r \in DhtPairs : DhtIsConnectedOp(r[1])
    \/ \E temp \in ValidateTemps, humidity \in ValidateHumidities :
          DhtValidateReadingOp(temp, humidity)

SpecDht == Init /\ [][DhtNext]_vars

-----------------------------------------------------------------------------
(* The light driver on its own, in the same way.                           *)

LightBeginOp(started, lux) ==
    /\ ~lightSensor._sensor
    /\ \E r \in {LightBegin(lightSensor, started, lux)} :
          /\ lightSensor' = r.self
          /\ io' = r.io
          /\ call' = [op |-> "light.begin", started |-> started, lux |-> lux, ret |-> r.ret]
    /\ UNCHANGED <<mainVars, micSensor, dhtSensor, driverHist, micSeen, dhtGood>>

LightReadOp(lux) ==
    /\ \E r \in {LightRead(lightSensor, lux)} :
          /\ lightSensor' = r.self
          /\ io' = r.io
          /\ call' = [op |-> "light.read", lux |-> lux, ret |-> r.ret]
    /\ UNCHANGED <<mainVars, micSensor, dhtSensor, driverHist, micSeen, dhtGood>>

LightGetLuxOp(lux) ==
    /\ \E r \in {LightGetLux(lightSensor, lux)} :
          /\ lightSensor' = r.self
          /\ io' = r.io
          /\ call' = [op |-> "light.getLux", lux |-> lux, ret |-> r.ret]
    /\ UNCHANGED <<mainVars, micSensor, dhtSensor, driverHist, micSeen, dhtGood>>

LightIsConnectedOp(lux) ==
    /\ \E r \in {LightIsConnected(lightSensor, lux)} :
          /\ lightSensor' = r.self
          /\ io' = r.io
          /\ call' = [op |-> "light.isConnected", lux |-> lux, ret |-> r.ret]
    /\ UNCHANGED <<mainVars, micSensor, dhtSensor, driverHist, micSeen, dhtGood>>

LightGetConditionOp(lux) ==
    /\ lightSensor' = lightSensor
    /\ io' = <<>>
    /\ call' = [op |-> "light.getCondition", lux |-> lux, ret |-> getCondition(lux)]
    /\ UNCHANGED <<mainVars, micSensor, dhtSensor, driverHist, micSeen, dhtGood>>

LightSetModeOp ==
    /\ \E r \in {LightSetMode(lightSensor)} :
          /\ lightSensor' = r.self
          /\ io' = r.io
          /\ call' = [op |-> "light.setMode"]
    /\ UNCHANGED <<mainVars, micSensor, dhtSensor, driverHist, micSeen, dhtGood>>

\* readLightLevel(): the thresholds of the classification and one step below
\* them, and the library's error values -1 and -2.
LightLux == {F(0), F(999), F(1000), F(4999), F(5000), F(12000), F(29999), F(30000), F(99999), F(100000), F(-100), F(-200)}

LightNext ==
    \/ \E started \in BOOLEAN, lux \in LightLux : LightBeginOp(started, lux)
    \/ \E lux \in LightLux : LightReadOp(lux)
    \/ \E lux \in LightLux : LightGetLuxOp(lux)
    \/ \E lux \in LightLux : LightIsConnectedOp(lux)
    \/ \E lux \in LightLux : LightGetConditionOp(lux)
    \/ LightSetModeOp

SpecLight == Init /\ [][LightNext]_vars

-----------------------------------------------------------------------------
(* The scheduler while millis() wraps around.  The first iteration of      *)
(* loop() comes when millis() is WrapStart, 1016 ms short of 2^32, and     *)
(* fires both timers; the histories count from that iteration.             *)

WrapStart == [hi |-> Limb - 1, lo |-> Limb - 1016]

\* The globals when setup() has returned, all three devices answering.
WrapBoot ==
    [lastSensorRead |-> ULong(0), lastAudioSample |-> ULong(0), sensorData |-> SensorData,
     micSensor |-> MicBegin(MicrophoneSensor, 2048).self,
     dhtSensor |-> DhtBegin(DHTSensor, <<F(225), F(500)>>, <<F(225), F(500)>>).self,
     lightSensor |-> LightBegin(LightSensor, TRUE, F(12000)).self]

\* That first iteration of loop().
WrapFirst == LoopBody(WrapBoot, WrapStart, Burst(0, 4095, 1, 64), F(225), F(500), F(12000))

InitWrap ==
    /\ clock = WrapStart
    /\ pc = "loop"
    /\ lastSensorRead = WrapFirst.e.g.lastSensorRead
    /\ lastAudioSample = WrapFirst.e.g.lastAudioSample
    /\ sensorData = WrapFirst.e.g.sensorData
    /\ micSensor = WrapFirst.e.g.micSensor
    /\ dhtSensor = WrapFirst.e.g.dhtSensor
    /\ lightSensor = WrapFirst.e.g.lightSensor
    /\ call = [op |-> "init"]
    /\ io = WrapFirst.a.io \o WrapFirst.e.io
    /\ printed = WrapFirst.e.printed
    /\ micLevels = <<>>
    /\ dhtGood = <<<<F(225), F(500)>>>>
    /\ sinceAudio = 0
    /\ sinceEnv = 0
    /\ micSeen = {}
    /\ peakAtReset = 0
    /\ run = 0

WrapLoop ==
    \E d \in Steps, samples \in SchedBursts, r \in SchedDht, lux \in SchedLux :
        /\ run + d <= MaxWrapRun
        /\ Loop(d, samples, r[1], r[2], lux)

SpecWrap == InitWrap /\ [][WrapLoop]_vars

-----------------------------------------------------------------------------
(* A session: setup(), then iterations of loop() and, between them, calls  *)
(* of the other public methods of the drivers, with devices that fail.     *)

SessionDht == {<<F(225), F(500)>>, <<NaN, F(500)>>, <<F(1500), F(500)>>}
SessionLux == {F(12000), F(-100)}

SessionSetup ==
    \E r1 \in SessionDht, r2 \in SessionDht, started \in BOOLEAN, lux \in SessionLux :
        Setup(2048, r1, r2, started, lux)

SessionLoop ==
    \E d \in EnvSteps, samples \in SchedBursts, r \in SessionDht, lux \in SessionLux :
        /\ run + d <= MaxEnvRun
        /\ Loop(d, samples, r[1], r[2], lux)

SessionCall ==
    /\ pc = "loop"
    /\ \/ \E r \in SessionDht : DhtReadOp(r[1], r[2])
       \/ \E r \in SessionDht : DhtGetTemperatureFOp(r[1])
       \/ \E r \in SessionDht : DhtIsConnectedOp(r[1])
       \/ \E lux \in SessionLux : LightReadOp(lux)
       \/ \E lux \in SessionLux : LightGetLuxOp(lux)
       \/ \E lux \in SessionLux : LightIsConnectedOp(lux)
       \/ \E lux \in SessionLux : LightGetConditionOp(lux)
       \/ LightSetModeOp
       \/ MicResetPeakOp

SessionNext == SessionSetup \/ SessionLoop \/ SessionCall

SpecSession == Init /\ [][SessionNext]_vars

-----------------------------------------------------------------------------
(* Properties of the microphone driver, under SpecMic.                     *)

\* C4: the n-th audio read since construction or the last resetPeak(), with
\* levels L1..Ln, returns peak = max(L1..Ln) and average = floor((L1+...+Ln)/n),
\* and the peak never decreases from one step to the next unless resetPeak() ran.
C4_PeakAndAverage ==
    /\ [](call.op = "mic.read" =>
            /\ Len(micLevels) >= 1
            /\ micLevels[Len(micLevels)] = call.ret.level
            /\ call.ret.peak = SetMax(Range(micLevels))
            /\ call.ret.average = SeqSum(micLevels) \div Len(micLevels))
    /\ [][call'.op # "mic.resetPeak" => micSensor'._peakLevel >= micSensor._peakLevel]_vars

\* Reached: a third read whose level is below the peak and above the average.
C4_Witness ==
    /\ call.op = "mic.read"
    /\ Len(micLevels) = 3
    /\ call.ret.level < call.ret.peak
    /\ call.ret.average > call.ret.level
    /\ call.ret.average * 3 # SeqSum(micLevels)

\* C5: resetPeak() zeroes peak, runningSum and sampleCount and keeps lastLevel
\* (isAboveThreshold answers as before it); the first read() after it returns
\* peak = average = that read's level.
C5_ResetPeak ==
    [][/\ call'.op = "mic.resetPeak" =>
            /\ micSensor'._peakLevel = 0
            /\ micSensor'._runningSum = 0
            /\ micSensor'._sampleCount = 0
            /\ micSensor'._lastLevel = micSensor._lastLevel
            /\ \A t \in MicThresholds :
                  MicIsAboveThreshold(micSensor', t).ret = MicIsAboveThreshold(micSensor, t).ret
       /\ (micLevels = <<>> /\ call'.op = "mic.read") =>
            /\ call'.ret.peak = call'.ret.level
            /\ call'.ret.average = call'.ret.level]_vars

\* Reached: the first read after a resetPeak() that discarded a higher peak.
C5_Witness ==
    /\ call.op = "mic.read"
    /\ Len(micLevels) = 1
    /\ peakAtReset > call.ret.level
    /\ call.ret.level > 0
    /\ call.ret.peak = call.ret.level

\* C6: read() returns level 0 when max(samples) - min(samples) < 100 and
\* (max - min) - 100 otherwise, max and min being the extremes of the 64 samples.
C6_Level ==
    call.op = "mic.read" =>
        LET spread == SetMax(Range(call.samples)) - SetMin(Range(call.samples))
        IN /\ Len(call.samples) = 64
           /\ \A i \in 1..64 : call.samples[i] \in 0..4095
           /\ call.ret.level = IF spread < 100 THEN 0 ELSE spread - 100

\* Reached: a burst of spread 150 whose maximum is its last sample, read as 50.
C6_Witness ==
    /\ call.op = "mic.read"
    /\ SetMax(Range(call.samples)) - SetMin(Range(call.samples)) = 150
    /\ call.samples[64] = SetMax(Range(call.samples))
    /\ call.ret.level = 50

-----------------------------------------------------------------------------
(* Properties of the DHT driver, under SpecDht.                            *)

\* The readings of a begin() or read(): how many times the temperature was read.
RECURSIVE Count(_, _)
Count(s, x) == IF s = <<>> THEN 0 ELSE (IF s[1] = x THEN 1 ELSE 0) + Count(Tail(s), x)

\* -40.0 <= t <= 80.0 and 0.0 <= h <= 100.0, neither NaN, in tenths.
InRange(t, h) ==
    /\ ~t.nan /\ ~h.nan
    /\ t.v >= -400 /\ t.v <= 800
    /\ h.v >= 0 /\ h.v <= 1000

\* C7: on an initialized sensor, a read() of a NaN or out-of-range pair returns
\* isValid = FALSE with the temperature and humidity of the latest read() that
\* validated and leaves the stored last-good pair as it was; a read() of a pair
\* in range returns that pair with isValid = TRUE and stores it.
C7_ReadFallback ==
    [][(call'.op = "dht.read" /\ dhtSensor._initialized) =>
          IF InRange(call'.temp, call'.humidity)
          THEN /\ call'.ret.isValid
               /\ call'.ret.temperature = call'.temp
               /\ call'.ret.humidity = call'.humidity
               /\ dhtSensor'._lastTemp = call'.temp
               /\ dhtSensor'._lastHumidity = call'.humidity
          ELSE /\ ~call'.ret.isValid
               /\ dhtGood # <<>> =>
                     /\ call'.ret.temperature = dhtGood[1][1]
                     /\ call'.ret.humidity = dhtGood[1][2]
               /\ dhtSensor'._lastTemp = dhtSensor._lastTemp
               /\ dhtSensor'._lastHumidity = dhtSensor._lastHumidity]_vars

\* Reached: after a read() that validated 22.5 / 50.0, a read() whose
\* temperature is NaN returns 22.5 / 50.0 with isValid = FALSE.
C7_Witness ==
    /\ call.op = "dht.read"
    /\ isnan(call.temp)
    /\ dhtGood = <<<<F(225), F(500)>>>>
    /\ ~call.ret.isValid
    /\ call.ret.temperature = F(225)
    /\ call.ret.humidity = F(500)
    /\ dhtSensor._lastTemp = F(225)

\* C8: every reading read() returns with isValid = FALSE holds a pair that is
\* in range (it passed validateReading before) or the default 0 / 0, and so
\* does the stored last-good pair in every state, begin() included.
C8_LastGoodValidated ==
    /\ InRange(dhtSensor._lastTemp, dhtSensor._lastHumidity)
    /\ (call.op = "dht.read" /\ ~call.ret.isValid) =>
            InRange(call.ret.temperature, call.ret.humidity)

\* Reached: begin() took 150.0 / 50.0 from the device, and a read() that fails
\* returns 150.0 with isValid = FALSE.
C8_Witness ==
    /\ call.op = "dht.read"
    /\ isnan(call.temp)
    /\ ~call.ret.isValid
    /\ call.ret.temperature = F(1500)
    /\ dhtGood = <<>>

\* C10: begin() reads the pair once after the settle delay and, only if that
\* pair has a NaN, once more after a second settle delay; it returns TRUE and
\* sets _initialized iff the last pair read has no NaN, and otherwise the
\* stored last-good pair is still 0 / 0.
C10_BeginRetry ==
    [][call'.op = "dht.begin" =>
          LET failed1 == isnan(call'.r1[1]) \/ isnan(call'.r1[2])
              last    == IF failed1 THEN call'.r2 ELSE call'.r1
              ok      == ~isnan(last[1]) /\ ~isnan(last[2])
              attempt == <<"delay2000", "readTemperature", "readHumidity">>
          IN /\ io' = <<"dht.begin">> \o attempt \o (IF failed1 THEN attempt ELSE <<>>)
             /\ Count(io', "readTemperature") <= 2
             /\ dhtSensor'._initialized = ok
             /\ call'.ret = ok
             /\ ~ok => /\ dhtSensor'._lastTemp = F(0)
                       /\ dhtSensor'._lastHumidity = F(0)]_vars

\* Reached: a begin() whose first pair has a NaN and whose retry succeeds.
C10_Witness ==
    /\ call.op = "dht.begin"
    /\ isnan(call.r1[1])
    /\ call.r2 = <<F(225), F(500)>>
    /\ Count(io, "delay2000") = 2
    /\ call.ret
    /\ dhtSensor._initialized

-----------------------------------------------------------------------------
(* Properties of the light driver, under SpecLight.                        *)

\* The classification of a lux value in hundredths of a lux.
Classify(lux) ==
    IF lux.v < 1000 THEN 0
    ELSE IF lux.v < 5000 THEN 1
    ELSE IF lux.v < 30000 THEN 2
    ELSE IF lux.v < 100000 THEN 3
    ELSE 4

\* C9: on an initialized sensor, a read() of a negative lux returns
\* isValid = FALSE with the stored lux, which is not negative, and leaves it
\* stored; a read() of a lux >= 0 returns it with isValid = TRUE and stores it;
\* and the condition of every reading read() returns is that of its lux.
C9_LightFallback ==
    [][call'.op = "light.read" =>
          /\ call'.ret.condition = Classify(call'.ret.lux)
          /\ lightSensor._initialized =>
                IF call'.lux.v < 0
                THEN /\ ~call'.ret.isValid
                     /\ call'.ret.lux = lightSensor._lastLux
                     /\ lightSensor._lastLux.v >= 0
                     /\ lightSensor'._lastLux = lightSensor._lastLux
                ELSE /\ call'.ret.isValid
                     /\ call'.ret.lux = call'.lux
                     /\ lightSensor'._lastLux = call'.lux]_vars

\* Reached: a failed read() that returns a stored 120 lux, classified Normal.
C9_Witness ==
    /\ call.op = "light.read"
    /\ call.lux = F(-100)
    /\ ~call.ret.isValid
    /\ call.ret.lux = F(12000)
    /\ call.ret.condition = CONDITION_NORMAL
    /\ lightSensor._lastLux = F(12000)

-----------------------------------------------------------------------------
(* Properties of the polling loop, under Spec, SpecReport and SpecEnv.     *)

\* An unsigned long below 2^31 as an integer.
Millis(u) == u.hi * 65536 + u.lo

\* The position of x in s, 0 if it is not there.
RECURSIVE IndexOf(_, _)
IndexOf(s, x) ==
    IF s = <<>> THEN 0
    ELSE IF s[1] = x THEN 1
    ELSE IF IndexOf(Tail(s), x) = 0 THEN 0
    ELSE 1 + IndexOf(Tail(s), x)

\* C1: in every iteration of loop() the audio timer fires iff
\* now - lastAudioSample >= 100 and the environmental timer iff
\* now - lastSensorRead >= 2000; a timer that fires sets its reference to now
\* and one that does not leaves it; each fires at most once in an iteration;
\* and a fire comes at least the interval after the previous fire of its timer.
C1_Timers ==
    [][call'.op = "loop" =>
          LET now        == Millis(call'.now)
              audioFired == call'.audioReading # <<>>
              envFired   == call'.dhtReading # <<>>
          IN /\ now = Millis(clock) + call'.d
             /\ audioFired <=> (now - Millis(lastAudioSample) >= 100)
             /\ envFired <=> (now - Millis(lastSensorRead) >= 2000)
             /\ lastAudioSample' = IF audioFired THEN call'.now ELSE lastAudioSample
             /\ lastSensorRead' = IF envFired THEN call'.now ELSE lastSensorRead
             /\ Count(io', "mic.read") = (IF audioFired THEN 1 ELSE 0)
             /\ Count(io', "dht.read") = (IF envFired THEN 1 ELSE 0)
             /\ Count(io', "light.read") = (IF envFired THEN 1 ELSE 0)
             /\ Count(io', "printSensorData") = (IF envFired THEN 1 ELSE 0)
             /\ Len(call'.audioReading) <= 1
             /\ Len(call'.dhtReading) <= 1
             /\ audioFired => sinceAudio + call'.d >= 100
             /\ envFired => sinceEnv + call'.d >= 2000]_vars

\* Reached: an iteration that comes 2050 ms after the one before it, long after
\* both timers last fired: each fires once, and its reference is this now.
C1_Witness ==
    /\ call.op = "loop"
    /\ call.d = 2050
    /\ run > 2050
    /\ Len(call.audioReading) = 1
    /\ Len(call.dhtReading) = 1
    /\ Count(io, "mic.read") = 1
    /\ Count(io, "printSensorData") = 1
    /\ lastAudioSample = call.now
    /\ lastSensorRead = call.now
    /\ sinceAudio = 0
    /\ sinceEnv = 0

\* C2: an environmental fire writes the snapshot's temperature and humidity
\* iff the DHT reading is valid and its lightLevel iff the light reading is
\* valid; the fields of an invalid reading keep the values they had, and an
\* iteration in which the timer does not fire changes none of them.
C2_SnapshotFrame ==
    [][call'.op = "loop" =>
          IF call'.dhtReading # <<>>
          THEN /\ IF call'.dhtReading[1].isValid
                  THEN /\ sensorData'.temperature = call'.dhtReading[1].temperature
                       /\ sensorData'.humidity = call'.dhtReading[1].humidity
                  ELSE /\ sensorData'.temperature = sensorData.temperature
                       /\ sensorData'.humidity = sensorData.humidity
               /\ IF call'.lightReading[1].isValid
                  THEN sensorData'.lightLevel = call'.lightReading[1].lux
                  ELSE sensorData'.lightLevel = sensorData.lightLevel
          ELSE /\ sensorData'.temperature = sensorData.temperature
               /\ sensorData'.humidity = sensorData.humidity
               /\ sensorData'.lightLevel = sensorData.lightLevel]_vars

\* Reached: a fire whose DHT reading is invalid and carries 30.1 / 41.2, which
\* the snapshot did not take, beside a valid light reading, which it took.
C2_Witness ==
    /\ call.op = "loop"
    /\ call.dhtReading # <<>>
    /\ ~call.dhtReading[1].isValid
    /\ call.dhtReading[1].temperature = F(301)
    /\ call.dhtReading[1].humidity = F(412)
    /\ sensorData.temperature = F(0)
    /\ sensorData.humidity = F(0)
    /\ call.lightReading[1].isValid
    /\ sensorData.lightLevel = F(999)

C11_LightBeginRetry ==
    call.op = "light.begin" =>
        LET readings == Count(io, "readLightLevel")
        IN /\ readings >= 1
           /\ call.lux.v < 0 => readings = 2
           /\ lightSensor._initialized = (call.lux.v >= 0)
           /\ call.ret = lightSensor._initialized

\* Reached: BH1750::begin() succeeds and the one reading made is -1: begin()
\* returns TRUE with _initialized set, having read the lux once.
C11_Witness ==
    /\ call.op = "light.begin"
    /\ call.started
    /\ call.lux = F(-100)
    /\ Count(io, "readLightLevel") = 1
    /\ call.ret
    /\ lightSensor._initialized
    /\ lightSensor._lastLux = F(0)

-----------------------------------------------------------------------------
(* Properties of a session, under SpecSession.                             *)

\* C12: once setup() has returned, no step changes _initialized of a sensor;
\* a sensor left uninitialized answers every read() with the degenerate
\* reading and makes no device access, answers isConnected() with FALSE, and
\* its fields of the snapshot stay 0.
C12_InitializedFixed ==
    [][pc = "loop" =>
          LET dhtZero   == [temperature |-> F(0), humidity |-> F(0), heatIndex |-> F(0),
                            isValid |-> FALSE]
              lightZero == [lux |-> F(0), condition |-> 0, isValid |-> FALSE]
          IN /\ dhtSensor'._initialized = dhtSensor._initialized
             /\ lightSensor'._initialized = lightSensor._initialized
             /\ ~dhtSensor._initialized =>
                   /\ call'.op = "dht.read" => call'.ret = dhtZero /\ io' = <<>>
                   /\ call'.op = "dht.isConnected" => ~call'.ret /\ io' = <<>>
                   /\ (call'.op = "loop" /\ call'.dhtReading # <<>>) =>
                         /\ call'.dhtReading[1] = dhtZero
                         /\ Count(io', "readTemperature") = 0
                         /\ Count(io', "readHumidity") = 0
                   /\ sensorData'.temperature = F(0)
                   /\ sensorData'.humidity = F(0)
             /\ ~lightSensor._initialized =>
                   /\ call'.op = "light.read" => call'.ret = lightZero /\ io' = <<>>
                   /\ call'.op = "light.isConnected" => ~call'.ret /\ io' = <<>>
                   /\ call'.op = "light.setMode" => io' = <<>>
                   /\ (call'.op = "loop" /\ call'.lightReading # <<>>) =>
                         /\ call'.lightReading[1] = lightZero
                         /\ Count(io', "readLightLevel") = 0
                   /\ sensorData'.lightLevel = F(0)]_vars

\* Reached: the second report of a session whose DHT failed begin() and whose
\* light sensor did not: the DHT reading is degenerate, the light's is valid.
C12_Witness ==
    /\ call.op = "loop"
    /\ call.dhtReading # <<>>
    /\ ~dhtSensor._initialized
    /\ lightSensor._initialized
    /\ ~call.dhtReading[1].isValid
    /\ call.dhtReading[1].temperature = F(0)
    /\ call.lightReading[1].isValid
    /\ Len(printed) = 2
    /\ printed[1].temperature = F(0)
    /\ printed[1].lightLevel = F(12000)
    /\ Count(io, "readTemperature") = 0
    /\ Count(io, "readLightLevel") = 1

\* C13: the stored last-good values change only in read(), and there exactly
\* when the reading is valid: getTemperatureF() and isConnected() of the DHT
\* and getLux(), getCondition(), isConnected() and setMode() of the light
\* sensor leave them as they were, whatever the device answers.
C13_LastGoodFrame ==
    [][/\ call'.op \in {"dht.getTemperatureF", "dht.isConnected", "light.getLux",
                        "light.getCondition", "light.isConnected", "light.setMode"} =>
            /\ dhtSensor'._lastTemp = dhtSensor._lastTemp
            /\ dhtSensor'._lastHumidity = dhtSensor._lastHumidity
            /\ lightSensor'._lastLux = lightSensor._lastLux
       /\ call'.op = "dht.read" =>
            /\ lightSensor'._lastLux = lightSensor._lastLux
            /\ ~call'.ret.isValid =>
                  /\ dhtSensor'._lastTemp = dhtSensor._lastTemp
                  /\ dhtSensor'._lastHumidity = dhtSensor._lastHumidity
       /\ call'.op = "light.read" =>
            /\ dhtSensor'._lastTemp = dhtSensor._lastTemp
            /\ dhtSensor'._lastHumidity = dhtSensor._lastHumidity
            /\ ~call'.ret.isValid => lightSensor'._lastLux = lightSensor._lastLux]_vars

\* C14: validateReading(temp, humidity) is TRUE iff neither argument is NaN,
\* -40 <= temp <= 80 and 0 <= humidity <= 100, the four limits included, and
\* it changes no field of the sensor.
C14_ValidateReading ==
    /\ [](call.op = "dht.validateReading" =>
            call.ret = (/\ ~call.temp.nan /\ ~call.humidity.nan
                        /\ -400 <= call.temp.v /\ call.temp.v <= 800
                        /\ 0 <= call.humidity.v /\ call.humidity.v <= 1000))
    /\ [][call'.op = "dht.validateReading" => dhtSensor' = dhtSensor]_vars

\* Reached: the upper limits 80.0 / 100.0 are accepted.
C14_Witness ==
    /\ call.op = "dht.validateReading"
    /\ call.temp = F(800)
    /\ call.humidity = F(1000)
    /\ call.ret
    /\ dhtSensor._initialized

\* C15: getCondition(lux) is Dark below 10 lux, Dim from 10 and below 50,
\* Normal from 50 and below 300, Bright from 300 and below 1000 and VeryBright
\* from 1000, and it is monotone: a lux not above the argument is classified
\* not above the result.
C15_GetCondition ==
    call.op = "light.getCondition" =>
        /\ call.ret = (IF call.lux.v < 1000 THEN 0
                       ELSE IF call.lux.v < 5000 THEN 1
                       ELSE IF call.lux.v < 30000 THEN 2
                       ELSE IF call.lux.v < 100000 THEN 3
                       ELSE 4)
        /\ \A lux \in LightLux : lux.v <= call.lux.v => getCondition(lux) <= call.ret
        /\ \A lux \in LightLux : lux.v >= call.lux.v => getCondition(lux) >= call.ret

\* Reached: 10 lux is Dim, while 9.99 lux is Dark.
C15_Witness ==
    /\ call.op = "light.getCondition"
    /\ call.lux = F(1000)
    /\ call.ret = CONDITION_DIM
    /\ getCondition(F(999)) = CONDITION_DARK
    /\ getConditionString(call.ret) = "Dim"

\* C16: isAboveThreshold(t) returns lastLevel > t, reads no sample and changes
\* no field; a step that is not a read(), resetPeak() included, leaves the
\* answer to every threshold as it was.
C16_IsAboveThreshold ==
    [][/\ call'.op = "mic.isAboveThreshold" =>
            /\ call'.ret = (micSensor._lastLevel > call'.threshold)
            /\ micSensor' = micSensor
            /\ io' = <<>>
       /\ call'.op # "mic.read" =>
            \A t \in MicThresholds :
                MicIsAboveThreshold(micSensor', t).ret = MicIsAboveThreshold(micSensor, t).ret]_vars

\* Reached: after a read of level 50 and a resetPeak(), 50 is above 49.
C16_Witness ==
    /\ call.op = "mic.isAboveThreshold"
    /\ call.threshold = 49
    /\ call.ret
    /\ micSensor._lastLevel = 50
    /\ micSensor._peakLevel = 0
    /\ micSensor._sampleCount = 0
    /\ peakAtReset = 50

-----------------------------------------------------------------------------
(* Progress of the two timers, under SpecLive.                             *)

\* C17: neither timer starves the other.  While the run has at least an
\* interval and a tick left, an iteration in which a timer did not fire is
\* followed by one in which it fires; and an environmental fire that no audio
\* read has preceded since the previous one (or since boot) comes in an
\* iteration whose audio timer is due and has run first.
C17_NoStarvation ==
    /\ (pc = "loop" /\ sinceAudio > 0 /\ run + AUDIO_SAMPLE_INTERVAL + 50 <= MaxRun)
          ~> (call.op = "loop" /\ call.audioReading # <<>>)
    /\ (pc = "loop" /\ sinceEnv > 0 /\ run + SENSOR_READ_INTERVAL + 50 <= MaxRun)
          ~> (call.op = "loop" /\ call.dhtReading # <<>>)
    /\ (pc = "boot") ~> (call.op = "loop" /\ call.dhtReading # <<>>)
    /\ [][(call'.op = "loop" /\ call'.dhtReading # <<>>) =>
             /\ micSeen # {} \/ call'.audioReading # <<>>
             /\ micSeen = {} =>
                   /\ call'.audioReading # <<>>
                   /\ IndexOf(io', "mic.read") = 1
                   /\ IndexOf(io', "dht.read") = 2]_vars

\* Reached: an environmental fire in an iteration without an audio fire, 2000 ms
\* after the previous one, with audio reads in between.
C17_Witness ==
    /\ call.op = "loop"
    /\ call.dhtReading # <<>>
    /\ call.audioReading = <<>>
    /\ call.d = 50
    /\ Len(printed) = 2
    /\ sinceAudio = 50
    /\ sinceEnv = 0

-----------------------------------------------------------------------------
(* The timers across the wrap of millis(), under SpecWrap.                 *)

\* C18: across the wrap of millis() from 2^32 - 1 to 0 a timer fires in an
\* iteration iff at least its interval of real milliseconds has passed since
\* it last fired: it neither stalls nor fires early.
C18_WrapAround ==
    [][call'.op = "loop" =>
          /\ (call'.audioReading # <<>>) <=> (sinceAudio + call'.d >= 100)
          /\ (call'.dhtReading # <<>>) <=> (sinceEnv + call'.d >= 2000)
          /\ call'.audioReading # <<>> => lastAudioSample' = call'.now
          /\ call'.dhtReading # <<>> => lastSensorRead' = call'.now]_vars

\* Reached: the environmental timer, last fired 1016 ms before the wrap, fires
\* 984 ms after it, exactly 2000 ms later.
C18_Witness ==
    /\ call.op = "loop"
    /\ call.dhtReading # <<>>
    /\ clock = [hi |-> 0, lo |-> 984]
    /\ lastSensorRead = clock
    /\ run = 2000
    /\ Len(printed) = 2
    /\ ULongGE(WrapStart, clock)

\* C19: under the scheduler the audio accumulator's _sampleCount never
\* exceeds 21 and its _runningSum never exceeds 21 * 3995, which is far below
\* 2^31 - 1, because every environmental fire calls resetPeak().
C19_SampleCountBound ==
    /\ micSensor._sampleCount <= 21
    /\ micSensor._runningSum <= 21 * 3995
    /\ micSensor._runningSum < 2147483647
    /\ call.op = "loop" =>
          /\ call.mic._sampleCount <= 21
          /\ call.mic._runningSum <= 21 * 3995

\* Reached: the 21st read of level 3995 since the last resetPeak(), made in
\* the iteration whose environmental block then resets the accumulator.
C19_Witness ==
    /\ call.op = "loop"
    /\ call.mic._sampleCount = 21
    /\ call.mic._runningSum = 21 * 3995
    /\ call.dhtReading # <<>>
    /\ micSensor._sampleCount = 0

\* C20: every reading read() returns has 0 <= level <= 3995, level <= peak,
\* 0 <= average <= peak and isValid = TRUE, and after the read() the stored
\* _lastLevel is the level returned.
C20_ReadingInvariant ==
    call.op = "mic.read" =>
        /\ \A i \in 1..64 : call.samples[i] \in 0..4095
        /\ 0 <= call.ret.level
        /\ call.ret.level <= 3995
        /\ call.ret.level <= call.ret.peak
        /\ 0 <= call.ret.average
        /\ call.ret.average <= call.ret.peak
        /\ call.ret.isValid
        /\ micSensor._lastLevel = call.ret.level

\* Reached: a read of level 0 after a resetPeak() and reads of 3995 and 50.
C20_Witness ==
    /\ call.op = "mic.read"
    /\ micLevels = <<3995, 50, 0>>
    /\ call.ret.level = 0
    /\ call.ret.average = 1348
    /\ call.ret.peak = 3995
    /\ micSensor._lastLevel = 0
    /\ peakAtReset > 0

====
